---- MODULE Spec2Model ----
(***************************************************************************)
(* Order book maintenance (orderbook_maintenance.py): the per-side sorted  *)
(* price-level container SideBook, the OrderBook with snapshot / diff      *)
(* application, notional-ahead and limit-order simulation, and the         *)
(* OrderBookEngine replaying a record stream.                              *)
(*                                                                         *)
(* Numbers.  Prices are the integers 1..MaxPrice.  Quantities are integer  *)
(* multiples of one quantum; the quantum is chosen so that the literal     *)
(* 1e-15 of place_limit_order is Tol quanta.  A quantity of 1..Tol quanta  *)
(* is therefore positive and at or below the tolerance.  Arithmetic on     *)
(* these values is exact, so floating-point round-off is not modelled.     *)
(***************************************************************************)
EXTENDS Integers, Sequences, FiniteSets, TLC

\* ------------------------------------------------------------------------
\* Bounds of the model
\* ------------------------------------------------------------------------
MaxPrice == 2
MaxQty == 4
\* longest level list of a snapshot or diff in SpecMerge
MaxBatch == 2
\* largest quantity in those lists
MaxFeedQty == 2
\* most records in the file an engine reads
MaxStream == 3
\* largest timestamp of a record
MaxTime == 2

\* The tolerance literal 1e-15 of place_limit_order, in quanta.
Tol == 1
\* top10 asks best_n for ten levels.
TopDepth == 10

Prices == 1..MaxPrice
\* quantities a caller or a feed may supply, the non-positive ones included
Qtys == (0 - 1)..MaxQty
Levels == {<<p, q>> : p \in Prices, q \in Qtys}

RECURSIVE SeqsUpTo(_, _)
SeqsUpTo(S, n) ==
    IF n = 0 THEN {<<>>}
    ELSE LET shorter == SeqsUpTo(S, n - 1)
         IN shorter \cup {Append(s, x) : s \in {t \in shorter : Len(t) = n - 1}, x \in S}

\* one call's level lists <<bids, asks>> with at most one level in all
SingleUpdates ==
    {<<<<>>, <<>>>>} \cup {<<<<l>>, <<>>>> : l \in Levels} \cup {<<<<>>, <<l>>>> : l \in Levels}

\* ------------------------------------------------------------------------
\* SideBook
\* ------------------------------------------------------------------------
NoQty == [p \in {} |-> 0]

\* SideBook(is_ask=...): prices = [], qty = {}
SideBook(is_ask) == [is_ask |-> is_ask, prices |-> <<>>, qty |-> NoQty]

\* bisect.bisect_left(a, x): the binary search of the standard library,
\* over 0-based positions lo..hi
RECURSIVE bisect_left_from(_, _, _, _)
bisect_left_from(a, x, lo, hi) ==
    IF lo < hi
    THEN LET mid == (lo + hi) \div 2
         IN IF a[mid + 1] < x THEN bisect_left_from(a, x, mid + 1, hi)
                               ELSE bisect_left_from(a, x, lo, mid)
    ELSE lo

bisect_left(a, x) == bisect_left_from(a, x, 0, Len(a))

\* bisect_right stopping before the elements equal to x
bisect_right_strict(a, x) == bisect_left_from(a, x, 0, Len(a))

\* bisect.bisect_right(a, x)
RECURSIVE bisect_right_from(_, _, _, _)
bisect_right_from(a, x, lo, hi) ==
    IF lo < hi
    THEN LET mid == (lo + hi) \div 2
         IN IF x < a[mid + 1] THEN bisect_right_from(a, x, lo, mid)
                               ELSE bisect_right_from(a, x, mid + 1, hi)
    ELSE lo

bisect_right(a, x) == bisect_right_from(a, x, 0, Len(a))

\* key_index with the bid side searched like the ask side
key_index_ascending(self, price) == bisect_left(self.prices, price)

\* SideBook._key_index: 0-based insertion index (asks ascending, bids
\* descending through the negated list)
key_index(self, price) ==
    IF self.is_ask
    THEN bisect_left(self.prices, price)
    ELSE LET negs == [i \in 1..Len(self.prices) |-> 0 - self.prices[i]]
         IN bisect_left(negs, 0 - price)

\* x in a
list_has(a, x) == \E i \in 1..Len(a) : a[i] = x

\* list.index(x): 0-based position of the first occurrence (x is in a)
list_index(a, x) == (CHOOSE i \in 1..Len(a) : a[i] = x /\ \A j \in 1..(i - 1) : a[j] # x) - 1

\* list.pop(idx), as the list left behind
list_pop(a, idx) == [i \in 1..(Len(a) - 1) |-> IF i <= idx THEN a[i] ELSE a[i + 1]]

\* list.insert(idx, x)
list_insert(a, idx, x) ==
    [i \in 1..(Len(a) + 1) |-> IF i <= idx THEN a[i] ELSE IF i = idx + 1 THEN x ELSE a[i - 1]]

\* dict.pop(key, None), as the dict left behind
dict_pop(d, k) == [p \in (DOMAIN d) \ {k} |-> d[p]]

\* d[k] = v
dict_set(d, k, v) == [p \in (DOMAIN d) \cup {k} |-> IF p = k THEN v ELSE d[p]]

\* update_level whose removal forgets the mapping
update_level_keeps_qty(self, price, new_qty) ==
    IF new_qty <= 0
    THEN IF price \in DOMAIN self.qty /\ list_has(self.prices, price)
         THEN [self EXCEPT !.prices = list_pop(self.prices, list_index(self.prices, price))]
         ELSE self
    ELSE IF price \in DOMAIN self.qty
         THEN [self EXCEPT !.qty = dict_set(self.qty, price, new_qty)]
         ELSE [self EXCEPT !.prices = list_insert(self.prices, key_index(self, price), price),
                           !.qty = dict_set(self.qty, price, new_qty)]

\* update_level removing only below zero
update_level_below_zero(self, price, new_qty) ==
    IF new_qty < 0
    THEN IF price \in DOMAIN self.qty /\ list_has(self.prices, price)
         THEN [self EXCEPT !.prices = list_pop(self.prices, list_index(self.prices, price)),
                           !.qty = dict_pop(self.qty, price)]
         ELSE self
    ELSE IF price \in DOMAIN self.qty
         THEN [self EXCEPT !.qty = dict_set(self.qty, price, new_qty)]
         ELSE [self EXCEPT !.prices = list_insert(self.prices, key_index(self, price), price),
                           !.qty = dict_set(self.qty, price, new_qty)]

\* the frame of an update_level call: its arguments, its local idx and
\* the statement it stands at
NewFrame(price, new_qty) == [price |-> price, new_qty |-> new_qty, idx |-> 0, at |-> "test"]

\* a call that has not begun or has ended is not in progress
InProgress(f) == f.at \notin {"test", "done", "raised"}

\* one step of update_level with the membership test of the insert branch
\* left out: a positive quantity always inserts
level_step_always_inserts(self, f) ==
    CASE f.at = "test" ->
           [side |-> self,
            frame |-> [f EXCEPT !.at = IF f.new_qty <= 0
                                       THEN IF f.price \in DOMAIN self.qty
                                            THEN "index" ELSE "done"
                                       ELSE "search"]]
      [] f.at = "index" ->
           IF list_has(self.prices, f.price)
           THEN [side |-> self,
                 frame |-> [f EXCEPT !.idx = list_index(self.prices, f.price), !.at = "pop"]]
           ELSE [side |-> self, frame |-> [f EXCEPT !.at = "raised"]]
      [] f.at = "pop" ->
           IF f.idx < Len(self.prices)
           THEN [side |-> [self EXCEPT !.prices = list_pop(self.prices, f.idx)],
                 frame |-> [f EXCEPT !.at = "qpop"]]
           ELSE [side |-> self, frame |-> [f EXCEPT !.at = "raised"]]
      [] f.at = "qpop" ->
           [side |-> [self EXCEPT !.qty = dict_pop(self.qty, f.price)],
            frame |-> [f EXCEPT !.at = "done"]]
      [] f.at = "search" ->
           [side |-> self,
            frame |-> [f EXCEPT !.idx = key_index(self, f.price), !.at = "insert"]]
      [] f.at = "insert" ->
           [side |-> [self EXCEPT !.prices = list_insert(self.prices,
                                                         IF f.idx < Len(self.prices)
                                                         THEN f.idx ELSE Len(self.prices),
                                                         f.price)],
            frame |-> [f EXCEPT !.at = "write"]]
      [] f.at = "write" ->
           [side |-> [self EXCEPT !.qty = dict_set(self.qty, f.price, f.new_qty)],
            frame |-> [f EXCEPT !.at = "done"]]

\* one step of update_level: the tests on new_qty and on membership in
\* qty; prices.index (ValueError for a price not in prices); prices.pop
\* (IndexError for an index past the end); qty.pop; _key_index;
\* prices.insert (an index past the end appends); the write to qty
level_step(self, f) ==
    CASE f.at = "test" ->
           [side |-> self,
            frame |-> [f EXCEPT !.at = IF f.new_qty <= 0
                                       THEN IF f.price \in DOMAIN self.qty
                                            THEN "index" ELSE "done"
                                       ELSE IF f.price \in DOMAIN self.qty
                                            THEN "write" ELSE "search"]]
      [] f.at = "index" ->
           IF list_has(self.prices, f.price)
           THEN [side |-> self,
                 frame |-> [f EXCEPT !.idx = list_index(self.prices, f.price), !.at = "pop"]]
           ELSE [side |-> self, frame |-> [f EXCEPT !.at = "raised"]]
      [] f.at = "pop" ->
           IF f.idx < Len(self.prices)
           THEN [side |-> [self EXCEPT !.prices = list_pop(self.prices, f.idx)],
                 frame |-> [f EXCEPT !.at = "qpop"]]
           ELSE [side |-> self, frame |-> [f EXCEPT !.at = "raised"]]
      [] f.at = "qpop" ->
           [side |-> [self EXCEPT !.qty = dict_pop(self.qty, f.price)],
            frame |-> [f EXCEPT !.at = "done"]]
      [] f.at = "search" ->
           [side |-> self,
            frame |-> [f EXCEPT !.idx = key_index(self, f.price), !.at = "insert"]]
      [] f.at = "insert" ->
           [side |-> [self EXCEPT !.prices = list_insert(self.prices,
                                                         IF f.idx < Len(self.prices)
                                                         THEN f.idx ELSE Len(self.prices),
                                                         f.price)],
            frame |-> [f EXCEPT !.at = "write"]]
      [] f.at = "write" ->
           [side |-> [self EXCEPT !.qty = dict_set(self.qty, f.price, f.new_qty)],
            frame |-> [f EXCEPT !.at = "done"]]

\* update_level adding the new quantity to the quantity of a level
update_level_adds(self, price, new_qty) ==
    IF new_qty <= 0
    THEN IF price \in DOMAIN self.qty /\ list_has(self.prices, price)
         THEN [self EXCEPT !.prices = list_pop(self.prices, list_index(self.prices, price)),
                           !.qty = dict_pop(self.qty, price)]
         ELSE self
    ELSE IF price \in DOMAIN self.qty
         THEN [self EXCEPT !.qty = dict_set(self.qty, price, self.qty[price] + new_qty)]
         ELSE [self EXCEPT !.prices = list_insert(self.prices, key_index(self, price), price),
                           !.qty = dict_set(self.qty, price, new_qty)]

\* SideBook.update_level.  prices.index raises ValueError for a price that
\* is a key of qty and not in prices, before anything is changed; the side
\* is then left as it was.
update_level(self, price, new_qty) ==
    IF new_qty <= 0
    THEN IF price \in DOMAIN self.qty
         THEN IF list_has(self.prices, price)
              THEN LET idx == list_index(self.prices, price)
                   IN [self EXCEPT !.prices = list_pop(self.prices, idx),
                                   !.qty = dict_pop(self.qty, price)]
              ELSE self
         ELSE self
    ELSE IF price \in DOMAIN self.qty
         THEN [self EXCEPT !.qty = dict_set(self.qty, price, new_qty)]
         ELSE LET idx == key_index(self, price)
              IN [self EXCEPT !.prices = list_insert(self.prices, idx, price),
                              !.qty = dict_set(self.qty, price, new_qty)]

\* self.qty.get(p, 0.0)
qty_get(self, p) == IF p \in DOMAIN self.qty THEN self.qty[p] ELSE 0

\* total += p * qty.get(p) over prices[1..n]
RECURSIVE notional_sum(_, _)
notional_sum(self, n) ==
    IF n = 0 THEN 0
    ELSE notional_sum(self, n - 1) + self.prices[n] * qty_get(self, self.prices[n])

\* the bid loop of notional_ahead: scan from position i, break at the first
\* price below the threshold
RECURSIVE notional_scan(_, _, _, _)
notional_scan(self, price, i, total) ==
    IF i > Len(self.prices) THEN total
    ELSE IF self.prices[i] >= price
         THEN notional_scan(self, price, i + 1,
                            total + self.prices[i] * qty_get(self, self.prices[i]))
         ELSE total

\* SideBook.notional_ahead
side_notional_ahead(self, price) ==
    IF Len(self.prices) = 0 THEN 0
    ELSE IF self.is_ask
         THEN LET idx == bisect_right(self.prices, price) - 1
              IN IF idx < 0 THEN 0 ELSE notional_sum(self, idx + 1)
         ELSE notional_scan(self, price, 1, 0)

\* SideBook.best_n
best_n(self, n) ==
    LET k == IF Len(self.prices) < n THEN Len(self.prices) ELSE n
    IN [i \in 1..k |-> <<self.prices[i], self.qty[self.prices[i]]>>]

\* ------------------------------------------------------------------------
\* OrderBook
\* ------------------------------------------------------------------------
\* OrderBook.__init__
NewOrderBook == [bids |-> SideBook(FALSE), asks |-> SideBook(TRUE)]

\* for price, qty in levels: side.update_level(price, qty)
RECURSIVE update_levels(_, _)
update_levels(self, levels) ==
    IF levels = <<>> THEN self
    ELSE update_levels(update_level(self, Head(levels)[1], Head(levels)[2]), Tail(levels))

\* apply_diff starting from fresh sides, as apply_snapshot does
apply_diff_rebuilds(self, bids, asks) ==
    [bids |-> update_levels(SideBook(FALSE), bids), asks |-> update_levels(SideBook(TRUE), asks)]

\* OrderBook.apply_diff
apply_diff(self, bids, asks) ==
    [bids |-> update_levels(self.bids, bids), asks |-> update_levels(self.asks, asks)]

\* apply_snapshot without the two fresh SideBooks
apply_snapshot_keeps(self, bids, asks) == apply_diff(self, bids, asks)

\* OrderBook.apply_snapshot: both sides are replaced by fresh SideBooks,
\* then rebuilt level by level
apply_snapshot(self, bids, asks) ==
    LET cleared == [self EXCEPT !.bids = SideBook(FALSE), !.asks = SideBook(TRUE)]
    IN apply_diff(cleared, bids, asks)

\* OrderBook.top10
top10(self) == [bids |-> best_n(self.bids, TopDepth), asks |-> best_n(self.asks, TopDepth)]

\* str.lower() on the side tokens used here
lower(s) ==
    CASE s = "BUY" -> "buy"
      [] s = "Sell" -> "sell"
      [] OTHER -> s

min(a, b) == IF a <= b THEN a ELSE b

\* the buy loop with the limit price itself not marketable
RECURSIVE buy_cross_below(_, _, _)
buy_cross_below(self, price, qty) ==
    IF Len(self.asks.prices) > 0 /\ self.asks.prices[1] < price /\ qty > Tol
    THEN LET p == self.asks.prices[1]
             level_q == self.asks.qty[p]
             take == min(level_q, qty)
             reduced == update_level(self.asks, p, level_q - take)
             swept == IF p \in DOMAIN reduced.qty /\ reduced.qty[p] <= Tol
                      THEN update_level(reduced, p, 0)
                      ELSE reduced
         IN buy_cross_below([self EXCEPT !.asks = swept], price, qty - take)
    ELSE [book |-> self, qty |-> qty]

\* the buy loop written as an if: only the best ask is taken
buy_cross_once(self, price, qty) ==
    IF Len(self.asks.prices) > 0 /\ self.asks.prices[1] <= price /\ qty > Tol
    THEN LET p == self.asks.prices[1]
             level_q == self.asks.qty[p]
             take == min(level_q, qty)
             reduced == update_level(self.asks, p, level_q - take)
             swept == IF p \in DOMAIN reduced.qty /\ reduced.qty[p] <= Tol
                      THEN update_level(reduced, p, 0)
                      ELSE reduced
         IN [book |-> [self EXCEPT !.asks = swept], qty |-> qty - take]
    ELSE [book |-> self, qty |-> qty]

\* the while loop of the buy branch; yields the book and the remaining qty
RECURSIVE buy_cross(_, _, _)
buy_cross(self, price, qty) ==
    IF Len(self.asks.prices) > 0 /\ self.asks.prices[1] <= price /\ qty > Tol
    THEN LET p == self.asks.prices[1]
             level_q == self.asks.qty[p]
             take == min(level_q, qty)
             reduced == update_level(self.asks, p, level_q - take)
             swept == IF p \in DOMAIN reduced.qty /\ reduced.qty[p] <= Tol
                      THEN update_level(reduced, p, 0)
                      ELSE reduced
         IN buy_cross([self EXCEPT !.asks = swept], price, qty - take)
    ELSE [book |-> self, qty |-> qty]

\* the residual of a buy overwriting the bid level
buy_rest_overwrites(self, price, qty) ==
    IF qty > Tol
    THEN [self EXCEPT !.bids = update_level(self.bids, price, qty)]
    ELSE self

\* the residual of a buy rests on the bids at the limit price
buy_rest(self, price, qty) ==
    IF qty > Tol
    THEN LET existing == qty_get(self.bids, price)
         IN [self EXCEPT !.bids = update_level(self.bids, price, existing + qty)]
    ELSE self

\* the sell loop with the limit price itself not marketable
RECURSIVE sell_cross_above(_, _, _)
sell_cross_above(self, price, qty) ==
    IF Len(self.bids.prices) > 0 /\ self.bids.prices[1] > price /\ qty > Tol
    THEN LET p == self.bids.prices[1]
             level_q == self.bids.qty[p]
             take == min(level_q, qty)
             reduced == update_level(self.bids, p, level_q - take)
             swept == IF p \in DOMAIN reduced.qty /\ reduced.qty[p] <= Tol
                      THEN update_level(reduced, p, 0)
                      ELSE reduced
         IN sell_cross_above([self EXCEPT !.bids = swept], price, qty - take)
    ELSE [book |-> self, qty |-> qty]

\* the while loop of the sell branch
RECURSIVE sell_cross(_, _, _)
sell_cross(self, price, qty) ==
    IF Len(self.bids.prices) > 0 /\ self.bids.prices[1] >= price /\ qty > Tol
    THEN LET p == self.bids.prices[1]
             level_q == self.bids.qty[p]
             take == min(level_q, qty)
             reduced == update_level(self.bids, p, level_q - take)
             swept == IF p \in DOMAIN reduced.qty /\ reduced.qty[p] <= Tol
                      THEN update_level(reduced, p, 0)
                      ELSE reduced
         IN sell_cross([self EXCEPT !.bids = swept], price, qty - take)
    ELSE [book |-> self, qty |-> qty]

\* the residual of a sell rests on the asks at the limit price
sell_rest(self, price, qty) ==
    IF qty > Tol
    THEN LET existing == qty_get(self.asks, price)
         IN [self EXCEPT !.asks = update_level(self.asks, price, existing + qty)]
    ELSE self

\* the condition of the while loop of the branch the side selects
loop_test(self, s, price, qty) ==
    IF s \in {"buy", "bid"}
    THEN Len(self.asks.prices) > 0 /\ self.asks.prices[1] <= price /\ qty > Tol
    ELSE Len(self.bids.prices) > 0 /\ self.bids.prices[1] >= price /\ qty > Tol

\* one iteration of the loop without the statement qty -= take
loop_body_keeps_qty(self, s, price, qty) ==
    LET mine == IF s \in {"buy", "bid"} THEN self.asks ELSE self.bids
        p == mine.prices[1]
        level_q == mine.qty[p]
        take == min(level_q, qty)
        reduced == update_level(mine, p, level_q - take)
        swept == IF p \in DOMAIN reduced.qty /\ reduced.qty[p] <= Tol
                 THEN update_level(reduced, p, 0)
                 ELSE reduced
    IN [book |-> IF s \in {"buy", "bid"} THEN [self EXCEPT !.asks = swept]
                                         ELSE [self EXCEPT !.bids = swept],
        qty |-> qty]

\* one iteration of the while loop: the book and the quantity it leaves
loop_body(self, s, price, qty) ==
    LET mine == IF s \in {"buy", "bid"} THEN self.asks ELSE self.bids
        p == mine.prices[1]
        level_q == mine.qty[p]
        take == min(level_q, qty)
        reduced == update_level(mine, p, level_q - take)
        swept == IF p \in DOMAIN reduced.qty /\ reduced.qty[p] <= Tol
                 THEN update_level(reduced, p, 0)
                 ELSE reduced
    IN [book |-> IF s \in {"buy", "bid"} THEN [self EXCEPT !.asks = swept]
                                         ELSE [self EXCEPT !.bids = swept],
        qty |-> qty - take]

\* the statements after the loop: the residual rests on the own side
loop_rest(self, s, price, qty) ==
    IF s \in {"buy", "bid"} THEN buy_rest(self, price, qty) ELSE sell_rest(self, price, qty)

\* place_limit_order with the early return taken below zero only
place_limit_order_below_zero(self, side, price, qty) ==
    LET s == lower(side)
    IN IF qty < 0
       THEN [book |-> self, ret |-> top10(self), err |-> FALSE]
       ELSE IF s \in {"buy", "bid"}
            THEN LET crossed == buy_cross(self, price, qty)
                     after == buy_rest(crossed.book, price, crossed.qty)
                 IN [book |-> after, ret |-> top10(after), err |-> FALSE]
            ELSE IF s \in {"sell", "ask"}
                 THEN LET crossed == sell_cross(self, price, qty)
                          after == sell_rest(crossed.book, price, crossed.qty)
                      IN [book |-> after, ret |-> top10(after), err |-> FALSE]
                 ELSE [book |-> self, ret |-> "ValueError", err |-> TRUE]

\* place_limit_order with the side tested after the sell branch has run
place_limit_order_checks_late(self, side, price, qty) ==
    LET s == lower(side)
    IN IF qty <= 0
       THEN [book |-> self, ret |-> top10(self), err |-> FALSE]
       ELSE IF s \in {"buy", "bid"}
            THEN LET crossed == buy_cross(self, price, qty)
                     after == buy_rest(crossed.book, price, crossed.qty)
                 IN [book |-> after, ret |-> top10(after), err |-> FALSE]
            ELSE LET crossed == sell_cross(self, price, qty)
                     after == sell_rest(crossed.book, price, crossed.qty)
                 IN IF s \in {"sell", "ask"}
                    THEN [book |-> after, ret |-> top10(after), err |-> FALSE]
                    ELSE [book |-> after, ret |-> "ValueError", err |-> TRUE]

\* OrderBook.place_limit_order: the book left behind, the value returned
\* and whether ValueError was raised
place_limit_order(self, side, price, qty) ==
    LET s == lower(side)
    IN IF qty <= 0
       THEN [book |-> self, ret |-> top10(self), err |-> FALSE]
       ELSE IF s \in {"buy", "bid"}
            THEN LET crossed == buy_cross(self, price, qty)
                     after == buy_rest(crossed.book, price, crossed.qty)
                 IN [book |-> after, ret |-> top10(after), err |-> FALSE]
            ELSE IF s \in {"sell", "ask"}
                 THEN LET crossed == sell_cross(self, price, qty)
                          after == sell_rest(crossed.book, price, crossed.qty)
                      IN [book |-> after, ret |-> top10(after), err |-> FALSE]
                 ELSE [book |-> self, ret |-> "ValueError", err |-> TRUE]

\* OrderBook.notional_ahead: the value returned, or ValueError
book_notional_ahead(self, side, price) ==
    LET s == lower(side)
    IN IF s \in {"ask", "asks", "sell"} THEN side_notional_ahead(self.asks, price)
       ELSE IF s \in {"bid", "bids", "buy"} THEN side_notional_ahead(self.bids, price)
       ELSE "ValueError"

\* ------------------------------------------------------------------------
\* OrderBookEngine
\* ------------------------------------------------------------------------
\* OrderBookEngine._book: the registry with a book for the symbol
engine_book(registry, symbol) ==
    IF symbol \notin DOMAIN registry
    THEN [x \in (DOMAIN registry) \cup {symbol} |->
              IF x = symbol THEN NewOrderBook ELSE registry[x]]
    ELSE registry

\* the for loop of build_until with the horizon tested before the record
\* is applied
RECURSIVE build_rows_stops_before(_, _, _, _, _, _, _)
build_rows_stops_before(rows, symbol, until_ts, i, self, seen, applied) ==
    IF i > Len(rows) THEN [book |-> self, applied |-> applied]
    ELSE IF rows[i].symbol # symbol
         THEN build_rows_stops_before(rows, symbol, until_ts, i + 1, self, seen, applied)
         ELSE IF rows[i].time >= until_ts
              THEN [book |-> self, applied |-> applied]
              ELSE LET next == IF ~seen THEN apply_snapshot(self, rows[i].bids, rows[i].asks)
                                        ELSE apply_diff(self, rows[i].bids, rows[i].asks)
                       how == IF ~seen THEN "snapshot" ELSE "diff"
                   IN build_rows_stops_before(rows, symbol, until_ts, i + 1, next, TRUE,
                                              Append(applied, <<i, how>>))

\* the for loop of build_until from row i on: the book left behind and
\* the rows applied, each with the call that applied it
RECURSIVE build_rows(_, _, _, _, _, _, _)
build_rows(rows, symbol, until_ts, i, self, seen, applied) ==
    IF i > Len(rows) THEN [book |-> self, applied |-> applied]
    ELSE IF rows[i].symbol # symbol
         THEN build_rows(rows, symbol, until_ts, i + 1, self, seen, applied)
         ELSE LET next == IF ~seen THEN apply_snapshot(self, rows[i].bids, rows[i].asks)
                                   ELSE apply_diff(self, rows[i].bids, rows[i].asks)
                  how == IF ~seen THEN "snapshot" ELSE "diff"
                  done == Append(applied, <<i, how>>)
              IN IF rows[i].time >= until_ts
                 THEN [book |-> next, applied |-> done]
                 ELSE build_rows(rows, symbol, until_ts, i + 1, next, TRUE, done)

\* OrderBookEngine.build_until: the registry left behind, the value
\* returned and the rows applied
build_until(registry, rows, symbol, until_ts) ==
    LET known == engine_book(registry, symbol)
        built == build_rows(rows, symbol, until_ts, 1, known[symbol], FALSE, <<>>)
    IN [books |-> [known EXCEPT ![symbol] = built.book],
        ret |-> top10(built.book),
        applied |-> built.applied]

\* expose handing out a new book in place of the registered one
expose_fresh(registry, symbol) == IF symbol \in DOMAIN registry THEN NewOrderBook ELSE "None"

\* OrderBookEngine.expose: the book of the symbol, or None
expose(registry, symbol) == IF symbol \in DOMAIN registry THEN registry[symbol] ELSE "None"

\* ------------------------------------------------------------------------
\* State
\* ------------------------------------------------------------------------
VARIABLES
    book,   \* an OrderBook object
    op,     \* the call made last
    args,   \* its arguments, where a property needs them
    pre,    \* the book before it, where a property needs it
    ret,    \* the value it returned, where a property needs it
    stream, \* the records of the file an OrderBookEngine reads
    books,  \* OrderBookEngine.books: symbol -> OrderBook
    log     \* the records build_until applied in its last call, and how

vars == <<book, op, args, pre, ret, stream, books, log>>

\* the engine is not involved in calls made on an OrderBook of its own
engine == <<stream, books, log>>

NoArgs == [none |-> TRUE]

OrderSides == {"buy", "sell"}

\* every level list of one call fits the quantity range of the model
WithinRange(self) ==
    /\ \A p \in DOMAIN self.bids.qty : self.bids.qty[p] <= MaxQty
    /\ \A p \in DOMAIN self.asks.qty : self.asks.qty[p] <= MaxQty

\* ------------------------------------------------------------------------
\* Spec: one OrderBook under any sequence of snapshots, diffs and orders
\* ------------------------------------------------------------------------
Init ==
    /\ book = NewOrderBook
    /\ op = "init"
    /\ args = NoArgs
    /\ pre = NewOrderBook
    /\ ret = "none"
    /\ stream = <<>>
    /\ books = NoQty
    /\ log = <<>>

ApplySnapshot(bids, asks) ==
    /\ book' = apply_snapshot(book, bids, asks)
    /\ op' = "snapshot"
    /\ args' = NoArgs
    /\ UNCHANGED <<pre, ret>>
    /\ UNCHANGED engine

ApplyDiff(bids, asks) ==
    /\ book' = apply_diff(book, bids, asks)
    /\ op' = "diff"
    /\ args' = NoArgs
    /\ UNCHANGED <<pre, ret>>
    /\ UNCHANGED engine

\* an order is left out when a level would outgrow the quantity range
PlaceLimitOrder(side, price, qty) ==
    LET r == place_limit_order(book, side, price, qty)
    IN /\ WithinRange(r.book)
       /\ book' = r.book
       /\ op' = "order"
       /\ args' = NoArgs
       /\ UNCHANGED <<pre, ret>>
       /\ UNCHANGED engine

Next ==
    \/ \E u \in SingleUpdates : ApplySnapshot(u[1], u[2])
    \/ \E u \in SingleUpdates : ApplyDiff(u[1], u[2])
    \/ \E s \in OrderSides, p \in Prices, q \in Qtys : PlaceLimitOrder(s, p, q)

Spec == Init /\ [][Next]_vars

\* ------------------------------------------------------------------------
\* Properties of a side in every reachable state (Spec)
\* ------------------------------------------------------------------------
StrictlyAscending(a) == \A i \in 1..(Len(a) - 1) : a[i] < a[i + 1]

StrictlyDescending(a) == \A i \in 1..(Len(a) - 1) : a[i] > a[i + 1]

PriceSet(self) == {self.prices[i] : i \in 1..Len(self.prices)}

SidesOf(self) == {self.bids, self.asks}

\* C1: after any sequence of upserts (issued by snapshots, diffs and
\* simulated orders) the ask prices are strictly ascending and the bid
\* prices strictly descending, so no price occurs twice.
C1_SortInvariant ==
    /\ StrictlyAscending(book.asks.prices)
    /\ StrictlyDescending(book.bids.prices)
    /\ \A side \in SidesOf(book) : Cardinality(PriceSet(side)) = Len(side.prices)

\* C1 witness: both sides hold several levels built by diffs or orders.
C1_Witness ==
    /\ op \in {"diff", "order"}
    /\ Len(book.asks.prices) >= 2
    /\ Len(book.bids.prices) >= 2

\* C2: in every reachable state the prices of the sequence are exactly the
\* keys of the mapping, on both sides, and every stored quantity is > 0.
C2_KeysAgreeAndPositive ==
    \A side \in SidesOf(book) :
        /\ PriceSet(side) = DOMAIN side.qty
        /\ \A p \in DOMAIN side.qty : side.qty[p] > 0

\* C2 witness: an order has left a side with a level and a side without.
C2_Witness ==
    /\ op = "order"
    /\ DOMAIN book.asks.qty = {}
    /\ DOMAIN book.bids.qty # {}

\* C3 as claimed: no stored level has a quantity at or below the tolerance.
C3_NoLevelWithinTolerance ==
    \A side \in SidesOf(book) : \A p \in DOMAIN side.qty : side.qty[p] > Tol

\* what upsert(price, quantity) with quantity <= 0 does to a side: the
\* level is gone, every other level is as before
RemovesLevel(side, p, q) ==
    LET after == update_level(side, p, q)
    IN /\ p \notin DOMAIN after.qty
       /\ ~list_has(after.prices, p)
       /\ DOMAIN after.qty = (DOMAIN side.qty) \ {p}
       /\ \A x \in DOMAIN after.qty : after.qty[x] = side.qty[x]

\* C3 amended: no stored level has a quantity <= 0; upsert with a quantity
\* <= 0 removes the level if present and creates none if absent; upsert
\* with a positive quantity at or below the tolerance stores the level.
C3_NoLevelAtOrBelowZero ==
    \A side \in SidesOf(book) :
        /\ \A p \in DOMAIN side.qty : side.qty[p] > 0
        /\ \A p \in Prices : \A q \in {x \in Qtys : x <= 0} : RemovesLevel(side, p, q)
        /\ \A p \in Prices : \A q \in 1..Tol : qty_get(update_level(side, p, q), p) = q

\* C3 witness: a diff has stored a level whose quantity is positive and
\* within the tolerance.
C3_Witness ==
    /\ op = "diff"
    /\ \E side \in SidesOf(book) : \E p \in DOMAIN side.qty : side.qty[p] <= Tol

\* ------------------------------------------------------------------------
\* SpecCall: a book is loaded by one snapshot, then one call is made on it
\* and recorded with its arguments, the book before it and its result
\* ------------------------------------------------------------------------
\* the level lists <<1, f[1]>>, ..., <<n, f[n]>>
LevelList(f) == [i \in 1..MaxPrice |-> <<i, f[i]>>]

FullLists == {LevelList(f) : f \in [Prices -> 0..MaxQty]}

NotionalSides == {"bid", "ask"}

\* thresholds below, at and above every price
Thresholds == 0..(MaxPrice + 1)

Load(bids, asks) ==
    /\ book' = apply_snapshot(book, bids, asks)
    /\ op' = "loaded"
    /\ UNCHANGED <<args, pre, ret>>
    /\ UNCHANGED engine

CallOrder(side, price, qty) ==
    LET r == place_limit_order(book, side, price, qty)
    IN /\ book' = r.book
       /\ op' = "order"
       /\ args' = [side |-> side, price |-> price, qty |-> qty]
       /\ pre' = book
       /\ ret' = r.ret
       /\ UNCHANGED engine

CallNotional(side, price) ==
    /\ book' = book
    /\ op' = "notional"
    /\ args' = [side |-> side, price |-> price]
    /\ pre' = book
    /\ ret' = book_notional_ahead(book, side, price)
    /\ UNCHANGED engine

CallSnapshot(bids, asks) ==
    /\ book' = apply_snapshot(book, bids, asks)
    /\ op' = "snapshot"
    /\ args' = [bids |-> bids, asks |-> asks]
    /\ pre' = book
    /\ ret' = "none"
    /\ UNCHANGED engine

NextCall ==
    \/ op = "init" /\ \E b \in FullLists, a \in FullLists : Load(b, a)
    \/ op = "loaded" /\ \E s \in OrderSides, p \in Prices, q \in Qtys : CallOrder(s, p, q)
    \/ op = "loaded" /\ \E s \in NotionalSides, t \in Thresholds : CallNotional(s, t)
    \/ op = "loaded" /\ \E u \in SingleUpdates : CallSnapshot(u[1], u[2])

SpecCall == Init /\ [][NextCall]_vars

\* ------------------------------------------------------------------------
\* Properties of one simulated buy order (SpecCall)
\* ------------------------------------------------------------------------
RECURSIVE SumOver(_, _)
\* the sum of f[p] over the prices p of S
SumOver(f, S) ==
    IF S = {} THEN 0
    ELSE LET p == CHOOSE x \in S : TRUE IN f[p] + SumOver(f, S \ {p})

\* total quantity of a side at the prices satisfying Keep
TotalQty(side) == SumOver(side.qty, DOMAIN side.qty)

AskQtyUpTo(side, P) == SumOver(side.qty, {p \in DOMAIN side.qty : p <= P})

BuyDone == op = "order" /\ lower(args.side) \in {"buy", "bid"}

\* ask levels of the book before the order that the order left reduced
PartlyReduced(P) ==
    {p \in DOMAIN pre.asks.qty :
        p <= P /\ p \in DOMAIN book.asks.qty /\ book.asks.qty[p] < pre.asks.qty[p]}

\* the parts of C4 about which ask levels a buy at limit P touches
BuyConsumesInOrder(P) ==
    /\ DOMAIN book.asks.qty \subseteq DOMAIN pre.asks.qty
    /\ \A p \in DOMAIN book.asks.qty : book.asks.qty[p] <= pre.asks.qty[p]
    /\ \A p \in DOMAIN pre.asks.qty :
          p > P => p \in DOMAIN book.asks.qty /\ book.asks.qty[p] = pre.asks.qty[p]
    /\ Cardinality(PartlyReduced(P)) <= 1
    /\ \A p \in PartlyReduced(P) :
          \A x \in DOMAIN pre.asks.qty : x < p => x \notin DOMAIN book.asks.qty
    /\ \A p \in DOMAIN pre.asks.qty :
          qty_get(book.asks, p) < pre.asks.qty[p] =>
              \A x \in DOMAIN pre.asks.qty : x < p => x \notin DOMAIN book.asks.qty

TakenFromAsks == TotalQty(pre.asks) - TotalQty(book.asks)

\* C4 as claimed: a buy of Q > 0 at limit P consumes asks in ascending
\* order while priced <= P, leaves every ask above P unchanged, at most one
\* level partly reduced with everything below it removed, and removes in
\* all exactly min(Q, ask quantity at prices <= P).
C4_BuyRemovesExactly ==
    (BuyDone /\ args.qty > 0) =>
        /\ BuyConsumesInOrder(args.price)
        /\ TakenFromAsks = min(args.qty, AskQtyUpTo(pre.asks, args.price))

\* C4 amended: as claimed, except that the total removed from the asks
\* differs from min(Q, ask quantity at prices <= P) by at most the
\* tolerance.
C4_BuyRemovesWithinTolerance ==
    (BuyDone /\ args.qty > 0) =>
        LET fill == min(args.qty, AskQtyUpTo(pre.asks, args.price))
        IN /\ BuyConsumesInOrder(args.price)
           /\ TakenFromAsks >= fill - Tol
           /\ TakenFromAsks <= fill + Tol

\* C4 witness: a buy removed the best ask, left the next one partly
\* reduced and did not touch an ask above its limit.
C4_Witness ==
    /\ BuyDone
    /\ args.qty > 0
    /\ PartlyReduced(args.price) # {}
    /\ \E p \in DOMAIN pre.asks.qty : p \notin DOMAIN book.asks.qty
    /\ TakenFromAsks = args.qty

\* C5: with R = Q - (quantity taken from the asks), a buy at limit P adds
\* R to the bid level at P (0 if absent) and changes no other bid level
\* when R exceeds the tolerance, and leaves the bids unchanged otherwise.
C5_BuyResidualRests ==
    BuyDone =>
        LET R == args.qty - TakenFromAsks
            P == args.price
        IN IF R > Tol
           THEN /\ DOMAIN book.bids.qty = DOMAIN pre.bids.qty \cup {P}
                /\ book.bids.qty[P] = qty_get(pre.bids, P) + R
                /\ \A p \in DOMAIN pre.bids.qty : p # P => book.bids.qty[p] = pre.bids.qty[p]
                /\ StrictlyDescending(book.bids.prices)
                /\ PriceSet(book.bids) = DOMAIN book.bids.qty
           ELSE book.bids = pre.bids

\* C5 witness: a buy crossed some asks and its residual joined a bid level
\* that already rested at the limit price.
C5_Witness ==
    /\ BuyDone
    /\ TakenFromAsks > 0
    /\ args.price \in DOMAIN pre.bids.qty
    /\ args.qty - TakenFromAsks > Tol
    /\ book.bids.qty[args.price] > pre.bids.qty[args.price]

\* ------------------------------------------------------------------------
\* Sell as the mirror image of buy (SpecCall)
\* ------------------------------------------------------------------------
\* the price order reversed
MirrorPrice(p) == MaxPrice + 1 - p

\* a side seen from the other side: prices reversed in order, same
\* positions, same quantities
MirrorSide(side) ==
    [is_ask |-> ~side.is_ask,
     prices |-> [i \in 1..Len(side.prices) |-> MirrorPrice(side.prices[i])],
     qty |-> [p \in {MirrorPrice(x) : x \in DOMAIN side.qty} |-> side.qty[MirrorPrice(p)]]]

\* the book with bid and ask sides swapped
MirrorBook(b) == [bids |-> MirrorSide(b.asks), asks |-> MirrorSide(b.bids)]

MirrorTop(t) ==
    [bids |-> [i \in 1..Len(t.asks) |-> <<MirrorPrice(t.asks[i][1]), t.asks[i][2]>>],
     asks |-> [i \in 1..Len(t.bids) |-> <<MirrorPrice(t.bids[i][1]), t.bids[i][2]>>]]

SellDone == op = "order" /\ lower(args.side) \in {"sell", "ask"}

\* C6: a sell on a book gives the mirror image of what a buy of the same
\* quantity gives on the mirrored book at the mirrored limit price: the
\* same book left behind and the same top-N returned.
C6_SellMirrorsBuy ==
    SellDone =>
        LET buy == place_limit_order(MirrorBook(pre), "buy", MirrorPrice(args.price), args.qty)
        IN /\ book = MirrorBook(buy.book)
           /\ ret = MirrorTop(buy.ret)

\* C6 witness: a sell took the best bid priced exactly at its limit and
\* its residual joined an ask level resting at the limit price.
C6_Witness ==
    /\ SellDone
    /\ Len(pre.bids.prices) > 0
    /\ pre.bids.prices[1] = args.price
    /\ args.price \notin DOMAIN book.bids.qty
    /\ args.price \in DOMAIN pre.asks.qty
    /\ book.asks.qty[args.price] > pre.asks.qty[args.price]

\* ------------------------------------------------------------------------
\* Snapshot on any book (SpecCall)
\* ------------------------------------------------------------------------
\* prices named by a level list
Named(levels) == {levels[i][1] : i \in 1..Len(levels)}

\* C8: whatever the book held, after applySnapshot it equals the book the
\* same snapshot builds from an empty book; no level survives unless the
\* snapshot supplies its price.
C8_SnapshotDiscardsPrior ==
    op = "snapshot" =>
        /\ book = apply_snapshot(NewOrderBook, args.bids, args.asks)
        /\ DOMAIN book.bids.qty \subseteq Named(args.bids)
        /\ DOMAIN book.asks.qty \subseteq Named(args.asks)

\* C8 witness: the book held levels on both sides that the snapshot did
\* not name, and the snapshot supplied a level.
C8_Witness ==
    /\ op = "snapshot"
    /\ (DOMAIN pre.bids.qty) \ Named(args.bids) # {}
    /\ (DOMAIN pre.asks.qty) \ Named(args.asks) # {}
    /\ DOMAIN book.asks.qty # {}

\* ------------------------------------------------------------------------
\* Notional ahead (SpecCall)
\* ------------------------------------------------------------------------
\* price * quantity of the level at p
Notional(side) == [p \in DOMAIN side.qty |-> p * side.qty[p]]

\* the levels of a side that are better than or equal to threshold t
Ahead(side, t) ==
    {p \in DOMAIN side.qty : IF side.is_ask THEN p <= t ELSE p >= t}

\* C10: notionalAheadOf(t) returns the sum of price * quantity over the
\* levels better than or equal to t (asks at or below t, bids at or above
\* t), and 0 when the side is empty or no level qualifies.
C10_NotionalAheadIsReferenceSum ==
    op = "notional" =>
        LET side == IF lower(args.side) \in {"ask", "asks", "sell"} THEN pre.asks ELSE pre.bids
        IN /\ ret = SumOver(Notional(side), Ahead(side, args.price))
           /\ Ahead(side, args.price) = {} => ret = 0
           /\ book = pre

\* C10 witness: an ask query whose threshold equals the price of the best
\* level, with a level above it left out of the sum.
C10_Witness ==
    /\ op = "notional"
    /\ args.side = "ask"
    /\ Len(pre.asks.prices) > 0
    /\ pre.asks.prices[1] = args.price
    /\ \E p \in DOMAIN pre.asks.qty : p > args.price
    /\ ret = args.price * pre.asks.qty[args.price]

\* ------------------------------------------------------------------------
\* SpecMerge: a snapshot S, then a diff D, on a new OrderBook.  S and D
\* carry the same level list for the bids and for the asks.
\* ------------------------------------------------------------------------
FeedLevels == {<<p, q>> : p \in Prices, q \in 0..MaxFeedQty}

FeedLists == SeqsUpTo(FeedLevels, MaxBatch)

MergeSnapshot(levels) ==
    /\ book' = apply_snapshot(book, levels, levels)
    /\ op' = "merge_snapshot"
    /\ args' = [snapshot |-> levels]
    /\ UNCHANGED <<pre, ret>>
    /\ UNCHANGED engine

MergeDiff(levels) ==
    /\ book' = apply_diff(book, levels, levels)
    /\ op' = "merge_diff"
    /\ args' = [snapshot |-> args.snapshot, diff |-> levels]
    /\ pre' = book
    /\ UNCHANGED ret
    /\ UNCHANGED engine

NextMerge ==
    \/ op = "init" /\ \E l \in FeedLists : MergeSnapshot(l)
    \/ op = "merge_snapshot" /\ \E l \in FeedLists : MergeDiff(l)

SpecMerge == Init /\ [][NextMerge]_vars

\* the quantity a level list gives price p: that of its last entry for p
LastQty(levels, p) ==
    LET last == CHOOSE i \in 1..Len(levels) :
                    levels[i][1] = p /\ \A j \in (i + 1)..Len(levels) : levels[j][1] # p
    IN levels[last][2]

\* the level-by-level merge of S and D: D's quantity where D names the
\* price, S's quantity where only S names it
MergedQty(S, D) ==
    [p \in Named(S) \cup Named(D) |-> IF p \in Named(D) THEN LastQty(D, p) ELSE LastQty(S, p)]

\* the merge as one level list, by ascending price, without the prices
\* whose quantity the merge makes zero
RECURSIVE ListByPrice(_, _)
ListByPrice(f, S) ==
    IF S = {} THEN <<>>
    ELSE LET p == CHOOSE x \in S : \A y \in S : x <= y
         IN <<<<p, f[p]>>>> \o ListByPrice(f, S \ {p})

MergedList(S, D) ==
    LET f == MergedQty(S, D) IN ListByPrice(f, {p \in DOMAIN f : f[p] > 0})

\* C7: applySnapshot(S) followed by applyDiff(D) leaves the book that one
\* applySnapshot of the level-by-level merge of S and D builds from scratch.
C7_SnapshotThenDiffIsMergedSnapshot ==
    op = "merge_diff" =>
        LET merged == MergedList(args.snapshot, args.diff)
        IN book = apply_snapshot(NewOrderBook, merged, merged)

\* C7 witness: D changed the quantity of one price of S, removed another
\* price of S, and what is left holds a level.
C7_Witness ==
    /\ op = "merge_diff"
    /\ \E p \in DOMAIN pre.asks.qty : p \in DOMAIN book.asks.qty /\ book.asks.qty[p] # pre.asks.qty[p]
    /\ \E p \in DOMAIN pre.bids.qty : p \notin DOMAIN book.bids.qty

\* ------------------------------------------------------------------------
\* SpecEngine: an OrderBookEngine on a file of records, under any sequence
\* of build_until calls
\* ------------------------------------------------------------------------
Symbols == {"BTC/USD", "ETH/USD"}

Times == 1..MaxTime

\* horizons at, between and beyond the timestamps
Horizons == 1..(MaxTime + 1)

\* the bid and ask update lists of a record: empty lists; one new level
\* a side; a removal with two ask levels out of price order
FeedUpdates ==
    {<<<<>>, <<>>>>,
     <<<<<<1, 2>>>>, <<<<2, 2>>>>>>,
     <<<<<<1, 0>>>>, <<<<2, 3>>, <<1, 2>>>>>>}

Records ==
    {[symbol |-> s, time |-> t, bids |-> u[1], asks |-> u[2]] :
        s \in Symbols, t \in Times, u \in FeedUpdates}

\* the file is in chronological order
Chronological(rows) == \A i \in 1..(Len(rows) - 1) : rows[i].time <= rows[i + 1].time

Streams == {rows \in SeqsUpTo(Records, MaxStream) : Chronological(rows)}

InitEngine ==
    /\ book = NewOrderBook
    /\ op = "init"
    /\ args = NoArgs
    /\ pre = NewOrderBook
    /\ ret = "none"
    /\ stream \in Streams
    /\ books = NoQty
    /\ log = <<>>

BuildUntil(symbol, until_ts) ==
    LET r == build_until(books, stream, symbol, until_ts)
    IN /\ books' = r.books
       /\ ret' = r.ret
       /\ log' = r.applied
       /\ op' = "build_until"
       /\ args' = [symbol |-> symbol, until |-> until_ts]
       /\ UNCHANGED <<book, pre, stream>>

NextEngine == \E s \in Symbols, t \in Horizons : BuildUntil(s, t)

SpecEngine == InitEngine /\ [][NextEngine]_vars

\* rows of the instrument, and those among them that reach the horizon
Qualifying(symbol) == {i \in 1..Len(stream) : stream[i].symbol = symbol}

Reaching(symbol, until_ts) == {i \in Qualifying(symbol) : stream[i].time >= until_ts}

\* the qualifying rows up to and including the first that reaches the
\* horizon; all of them if none does
Due(symbol, until_ts) ==
    LET reach == Reaching(symbol, until_ts)
    IN IF reach = {} THEN Qualifying(symbol)
       ELSE {i \in Qualifying(symbol) : \A j \in reach : i <= j}

\* the rows of S applied in stream order to a book, the first by a
\* snapshot when first is TRUE, the others by diffs
RECURSIVE Replay(_, _, _)
Replay(S, self, first) ==
    IF S = {} THEN self
    ELSE LET i == CHOOSE x \in S : \A y \in S : x <= y
             next == IF first THEN apply_snapshot(self, stream[i].bids, stream[i].asks)
                              ELSE apply_diff(self, stream[i].bids, stream[i].asks)
         IN Replay(S \ {i}, next, FALSE)

C9_FirstRecordTriggers ==
    /\ op = "build_until"
    /\ log = <<<<1, "snapshot">>>>
    /\ Cardinality(Qualifying(args.symbol)) >= 2

\* ------------------------------------------------------------------------
\* SpecToken: a book is loaded by one snapshot, then place_limit_order is
\* called once with a side token the method knows, one in another case,
\* and two it does not know
\* ------------------------------------------------------------------------
SideTokens == {"bid", "Sell", "hold", "bids"}

\* the call recorded with whether it raised, and the value it returned
\* if it did not
CallToken(side, price, qty) ==
    LET r == place_limit_order(book, side, price, qty)
    IN /\ book' = r.book
       /\ op' = "order"
       /\ args' = [side |-> side, price |-> price, qty |-> qty]
       /\ pre' = book
       /\ ret' = [raised |-> r.err, value |-> r.ret]
       /\ UNCHANGED engine

NextToken ==
    \/ op = "init" /\ \E b \in FullLists, a \in FullLists : Load(b, a)
    \/ op = "loaded" /\ \E s \in SideTokens, p \in Prices, q \in Qtys : CallToken(s, p, q)

SpecToken == Init /\ [][NextToken]_vars

\* the token resolves neither to buy nor to sell
Unrecognized(side) == lower(side) \notin {"buy", "bid", "sell", "ask"}

\* the first TopDepth levels of a side, best first, as price and quantity
TopLevels(side) ==
    [i \in 1..min(Len(side.prices), TopDepth) |-> <<side.prices[i], side.qty[side.prices[i]]>>]

TopOf(self) == [bids |-> TopLevels(self.bids), asks |-> TopLevels(self.asks)]

\* C11: place_limit_order called with a side token outside {buy, bid,
\* sell, ask} raises the invalid-argument error, for every price and every
\* quantity, quantities <= 0 included.
C11_BadTokenAlwaysFails ==
    (op = "order" /\ Unrecognized(args.side)) => ret.raised

\* C14: place_limit_order with quantity <= 0 is a no-op: both sides of the
\* book are as before the call and the value returned is the top 10 of
\* that book.
C14_NonPositiveQtyIsNoOp ==
    (op = "order" /\ args.qty <= 0) =>
        /\ book.bids = pre.bids
        /\ book.asks = pre.asks
        /\ ~ret.raised
        /\ ret.value = TopOf(pre)

\* C14 witness: a bid of quantity 0 at a price the best ask would match
\* returned the top 10 of a book with levels on both sides.
C14_Witness ==
    /\ op = "order"
    /\ args.side = "bid"
    /\ args.qty = 0
    /\ pre.asks.prices # <<>>
    /\ pre.asks.prices[1] <= args.price
    /\ pre.bids.prices # <<>>
    /\ ~ret.raised
    /\ ret.value = TopOf(pre)

\* C20: when place_limit_order raises for an unrecognized side token with
\* quantity > 0, the bid side and the ask side are exactly as before.
C20_BadTokenLeavesBook ==
    (op = "order" /\ args.qty > 0 /\ ret.raised) =>
        /\ book.bids = pre.bids
        /\ book.asks = pre.asks

\* C20 witness: an order with an unknown token and a positive quantity
\* raised on a book whose best bid a sell at that price would have taken.
C20_Witness ==
    /\ op = "order"
    /\ Unrecognized(args.side)
    /\ args.qty > Tol
    /\ ret.raised
    /\ pre.bids.prices # <<>>
    /\ pre.bids.prices[1] >= args.price

\* ------------------------------------------------------------------------
\* SpecUpsert: both sides are loaded with the same level list, then
\* update_level is called on one side and called again with the same
\* arguments
\* ------------------------------------------------------------------------
SideNames == {"bids", "asks"}

SideNamed(self, name) == IF name = "bids" THEN self.bids ELSE self.asks

WithSide(self, name, side) ==
    IF name = "bids" THEN [self EXCEPT !.bids = side] ELSE [self EXCEPT !.asks = side]

CallUpsert(side, price, qty) ==
    /\ book' = WithSide(book, side, update_level(SideNamed(book, side), price, qty))
    /\ op' = "upsert"
    /\ args' = [side |-> side, price |-> price, qty |-> qty]
    /\ pre' = book
    /\ UNCHANGED ret
    /\ UNCHANGED engine

RepeatUpsert ==
    /\ book' = WithSide(book, args.side,
                        update_level(SideNamed(book, args.side), args.price, args.qty))
    /\ op' = "upsert_again"
    /\ UNCHANGED <<args, pre, ret>>
    /\ UNCHANGED engine

NextUpsert ==
    \/ op = "init" /\ \E l \in FullLists : Load(l, l)
    \/ op = "loaded" /\ \E s \in SideNames, l \in Levels : CallUpsert(s, l[1], l[2])
    \/ op = "upsert" /\ RepeatUpsert

SpecUpsert == Init /\ [][NextUpsert]_vars

\* C15: update_level is idempotent: for every side, price p and quantity
\* q (q = 0 included) the second of two calls update_level(p, q) in a row
\* leaves the sequence and the mapping of the side exactly as the first
\* call left them.
C15_UpsertIdempotent ==
    [][op' = "upsert_again" => book' = book]_vars

\* C15 witness: update_level(p, 0) was called twice on a side of two
\* levels that had a level at p; the first call removed it.
C15_Witness ==
    /\ op = "upsert_again"
    /\ args.qty = 0
    /\ Len(SideNamed(pre, args.side).prices) = 2
    /\ args.price \in DOMAIN SideNamed(pre, args.side).qty
    /\ SideNamed(book, args.side).prices # SideNamed(pre, args.side).prices
    /\ args.price \notin DOMAIN SideNamed(book, args.side).qty

\* ------------------------------------------------------------------------
\* An order on an uncrossed book (SpecCall)
\* ------------------------------------------------------------------------
\* a side is empty or every bid price is below every ask price
Uncrossed(self) ==
    \A b \in DOMAIN self.bids.qty, a \in DOMAIN self.asks.qty : b < a

\* the buy left quantity resting on the bids at its limit price
BuyRested ==
    /\ args.side = "buy"
    /\ args.price \in DOMAIN book.bids.qty
    /\ book.bids.qty[args.price] > qty_get(pre.bids, args.price)

\* C17: place_limit_order never crosses an uncrossed book: if before the
\* call a side is empty or best bid < best ask, then so after it, for a
\* buy or a sell of any price and quantity; when a buy leaves a residual
\* resting on the bids at limit P, no ask priced <= P remains.
C17_OrderKeepsUncrossed ==
    (op = "order" /\ Uncrossed(pre)) =>
        /\ Uncrossed(book)
        /\ BuyRested => \A a \in DOMAIN book.asks.qty : a > args.price

\* C17 witness: a buy on an uncrossed book with levels on both sides took
\* the asks up to its limit and left its residual on the bids at the limit.
C17_Witness ==
    /\ op = "order"
    /\ Uncrossed(pre)
    /\ pre.bids.prices # <<>>
    /\ pre.asks.prices # <<>>
    /\ pre.asks.prices[1] <= args.price
    /\ BuyRested
    /\ book.asks # pre.asks

\* ------------------------------------------------------------------------
\* SpecLoop: both sides are loaded with the same level list, then one
\* place_limit_order call runs iteration by iteration.  args.left is the
\* local qty, args.n counts the iterations of the while loop.  A call made
\* runs to its end (weak fairness of its steps).
\* ------------------------------------------------------------------------
BeginOrder(side, price, qty) ==
    /\ op' = IF qty <= 0 THEN "order_done" ELSE "crossing"
    /\ args' = [side |-> side, price |-> price, qty |-> qty, left |-> qty, n |-> 0]
    /\ pre' = book
    /\ UNCHANGED <<book, ret>>
    /\ UNCHANGED engine

CrossStep ==
    /\ loop_test(book, lower(args.side), args.price, args.left)
    /\ LET r == loop_body(book, lower(args.side), args.price, args.left)
       IN /\ book' = r.book
          /\ args' = [args EXCEPT !.left = r.qty, !.n = args.n + 1]
    /\ UNCHANGED <<op, pre, ret>>
    /\ UNCHANGED engine

RestOrder ==
    /\ ~loop_test(book, lower(args.side), args.price, args.left)
    /\ book' = loop_rest(book, lower(args.side), args.price, args.left)
    /\ op' = "order_done"
    /\ UNCHANGED <<args, pre, ret>>
    /\ UNCHANGED engine

NextLoop ==
    \/ op = "init" /\ \E l \in FullLists : Load(l, l)
    \/ op = "loaded" /\ \E s \in OrderSides, p \in Prices, q \in Qtys : BeginOrder(s, p, q)
    \/ op = "crossing" /\ CrossStep
    \/ op = "crossing" /\ RestOrder

SpecLoop ==
    /\ Init
    /\ [][NextLoop]_vars
    /\ WF_vars(op = "crossing" /\ CrossStep)
    /\ WF_vars(op = "crossing" /\ RestOrder)

\* the side the order crosses against
Opposite(self) == IF args.side = "buy" THEN self.asks ELSE self.bids

\* the best price of a side: lowest ask, highest bid
BestOf(self) ==
    CHOOSE p \in DOMAIN Opposite(self).qty :
        \A x \in DOMAIN Opposite(self).qty :
            IF args.side = "buy" THEN p <= x ELSE p >= x

\* C18: the crossing loop of place_limit_order terminates: every iteration
\* removes the best opposite-side level of its time or brings the
\* remaining quantity to zero, the iterations never outnumber the levels
\* the opposite side had at call time, the loop left behind is the book
\* the method leaves, and every call begun ends.
C18_CrossingLoopTerminates ==
    /\ [][/\ (op = "crossing" /\ op' = "crossing") =>
                /\ args'.n = args.n + 1
                /\ BestOf(book) \notin DOMAIN Opposite(book').qty \/ args'.left = 0
                /\ args'.n <= Len(Opposite(pre).prices)
          /\ (op = "crossing" /\ op' = "order_done") =>
                book' = place_limit_order(pre, args.side, args.price, args.qty).book]_vars
    /\ (op = "crossing") ~> (op = "order_done")

\* C18 witness: an order ended after as many iterations as the opposite
\* side had levels, two; the first removed the best level, the second
\* brought the quantity to zero and left the level in the book.
C18_Witness ==
    /\ op = "order_done"
    /\ args.n = 2
    /\ Len(Opposite(pre).prices) = 2
    /\ Len(Opposite(book).prices) = 1
    /\ args.left = 0

\* ------------------------------------------------------------------------
\* SpecRegistry: an OrderBookEngine under build_until and expose calls in
\* any order, and orders placed on the book an expose call just returned
\* ------------------------------------------------------------------------
\* the files of this specification: every record carries the update that
\* adds one level a side
RegistryStreams ==
    {rows \in Streams :
        \A i \in 1..Len(rows) : rows[i].bids = <<<<1, 2>>>> /\ rows[i].asks = <<<<2, 2>>>>}

InitRegistry ==
    /\ book = NewOrderBook
    /\ op = "init"
    /\ args = NoArgs
    /\ pre = NewOrderBook
    /\ ret = "none"
    /\ stream \in RegistryStreams
    /\ books = NoQty
    /\ log = <<>>

\* orders a caller places on an exposed book: each rests on an empty
\* book and crosses the level of the feed
EngineOrders == {<<"buy", 2, 2>>, <<"sell", 1, 1>>}

\* expose has no raise statement: the call is recorded as not raised,
\* with the value it returned
Expose(symbol) ==
    /\ op' = "expose"
    /\ args' = [symbol |-> symbol]
    /\ ret' = [raised |-> FALSE, value |-> expose(books, symbol)]
    /\ UNCHANGED <<book, pre, stream, books, log>>

\* ob = expose(symbol); ob.place_limit_order(side, price, qty): the object
\* returned is the registered one, so the call changes the registry
ExposedOrder(side, price, qty) ==
    /\ args.symbol \in DOMAIN books
    /\ LET r == place_limit_order(books[args.symbol], side, price, qty)
       IN /\ WithinRange(r.book)
          /\ books' = [books EXCEPT ![args.symbol] = r.book]
          /\ ret' = r.ret
    /\ op' = "order"
    /\ args' = [symbol |-> args.symbol, side |-> side, price |-> price, qty |-> qty]
    /\ UNCHANGED <<book, pre, stream, log>>

NextRegistry ==
    \/ \E s \in Symbols, t \in Horizons : BuildUntil(s, t)
    \/ \E s \in Symbols : Expose(s)
    \/ op = "expose" /\ \E o \in EngineOrders : ExposedOrder(o[1], o[2], o[3])

SpecRegistry == InitRegistry /\ [][NextRegistry]_vars

\* the symbol of the call recorded has a book in the registry
Known == args.symbol \in DOMAIN books

\* what an engine that made no call before would hold and return
Fresh(symbol, until_ts) == build_until(NoQty, stream, symbol, until_ts)

\* C12 as stated: expose fails with a not-found error when the instrument
\* is unknown to the engine, and otherwise returns the live OrderBook of
\* the instrument.
C12_ExposeUnknownRaises ==
    op = "expose" =>
        IF Known THEN ~ret.raised /\ ret.value = books[args.symbol]
                 ELSE ret.raised

\* C12 amended: expose raises no error; it returns None when the
\* instrument is unknown to the engine, and otherwise returns the live
\* OrderBook of the instrument, the book build_until and place_limit_order
\* change.
C12_ExposeUnknownReturnsNone ==
    op = "expose" =>
        /\ ~ret.raised
        /\ IF Known THEN ret.value = books[args.symbol]
                    ELSE ret.value = "None"

\* C12 witness: expose returned the book of an instrument with records in
\* the file after an order had changed it: no replay of the file yields
\* that book.
C12_Witness ==
    /\ op = "expose"
    /\ Known
    /\ Qualifying(args.symbol) # {}
    /\ ret.value = books[args.symbol]
    /\ \A t \in Horizons : books[args.symbol] # Fresh(args.symbol, t).books[args.symbol]

\* C13: a book enters the registry only on the first processed record of
\* its symbol: after any sequence of engine calls an instrument with no
\* record processed, in particular one with no record in the file, has no
\* book in the registry.
C13_BookOnlyAfterEvent ==
    \A s \in Symbols : Qualifying(s) = {} => s \notin DOMAIN books

\* C19: the result of build_until(symbol, until_ts) is determined by the
\* file and the horizon alone: whatever the book of the instrument was
\* before the call (earlier build_until calls, orders placed on it), the
\* book after the call and the top 10 returned are those of an engine
\* that made no call before, also when the file holds no record of the
\* instrument.
C19_BuildUntilIgnoresHistory ==
    op = "build_until" =>
        /\ books[args.symbol] = Fresh(args.symbol, args.until).books[args.symbol]
        /\ ret = Fresh(args.symbol, args.until).ret

\* the same, for instruments with a record in the file
C19_WithRecords ==
    (op = "build_until" /\ Qualifying(args.symbol) # {}) =>
        /\ books[args.symbol] = Fresh(args.symbol, args.until).books[args.symbol]
        /\ ret = Fresh(args.symbol, args.until).ret

\* ------------------------------------------------------------------------
\* SpecThreads: both sides are loaded with the same level list, then two
\* update_level calls are made on one side and run statement by
\* statement, either one after the other or interleaved in any way.
\* args holds the side, the discipline and the frame of each call.
\* ------------------------------------------------------------------------
Calls == {1, 2}

Disciplines == {"serialized", "interleaved"}

BeginCalls(discipline, side, first, second) ==
    /\ op' = "upserting"
    /\ args' = [side |-> side, discipline |-> discipline,
                frames |-> <<NewFrame(first[1], first[2]), NewFrame(second[1], second[2])>>]
    /\ pre' = book
    /\ UNCHANGED <<book, ret>>
    /\ UNCHANGED engine

\* a step of call c; a serialized call waits while the other is in progress
StepCall(c) ==
    /\ args.frames[c].at \notin {"done", "raised"}
    /\ args.discipline = "serialized" =>
           \A d \in Calls \ {c} : ~InProgress(args.frames[d])
    /\ LET r == level_step(SideNamed(book, args.side), args.frames[c])
       IN /\ book' = WithSide(book, args.side, r.side)
          /\ args' = [args EXCEPT !.frames[c] = r.frame]
    /\ UNCHANGED <<op, pre, ret>>
    /\ UNCHANGED engine

NextThreads ==
    \/ op = "init" /\ \E l \in FullLists : Load(l, l)
    \/ op = "loaded" /\ \E d \in Disciplines, s \in SideNames, f \in FeedLevels, g \in FeedLevels :
                            BeginCalls(d, s, f, g)
    \/ op = "upserting" /\ \E c \in Calls : StepCall(c)

SpecThreads == Init /\ [][NextThreads]_vars

\* the invariant of a side: prices strictly in the order of the side, no
\* price twice, the prices are the keys of qty
SideInvariant(side) ==
    /\ IF side.is_ask THEN StrictlyAscending(side.prices) ELSE StrictlyDescending(side.prices)
    /\ Cardinality(PriceSet(side)) = Len(side.prices)
    /\ PriceSet(side) = DOMAIN side.qty

\* the side after the call of frame f, then the call of frame g
AfterBoth(side, f, g) ==
    update_level(update_level(side, f.price, f.new_qty), g.price, g.new_qty)

\* C16: two update_level calls on one side that are serialized leave the
\* side invariant intact, and neither raises, whenever none of them is in
\* progress, and they leave the side two whole calls leave; interleaved
\* at the statements of update_level they can leave the invariant
\* violated (the witness).
C16_SerializedKeepsInvariant ==
    (op = "upserting" /\ args.discipline = "serialized"
        /\ \A c \in Calls : ~InProgress(args.frames[c])) =>
        /\ SideInvariant(SideNamed(book, args.side))
        /\ \A c \in Calls : args.frames[c].at # "raised"
        /\ (\A c \in Calls : args.frames[c].at = "done") =>
               SideNamed(book, args.side) \in
                   {AfterBoth(SideNamed(pre, args.side), args.frames[c], args.frames[d]) :
                        c \in Calls, d \in Calls}

\* C16 witness: two interleaved calls have both ended without raising and
\* the side they worked on violates its invariant.
C16_Witness ==
    /\ op = "upserting"
    /\ args.discipline = "interleaved"
    /\ \A c \in Calls : args.frames[c].at = "done"
    /\ SideInvariant(SideNamed(pre, args.side))
    /\ ~SideInvariant(SideNamed(book, args.side))

====
